---- MODULE Spec2Model ----
(***************************************************************************)
(* Model of synapse/replication/tcp/client.py.                             *)
(*                                                                         *)
(* Part I : DirectTcpReplicationClientFactory, a subclass of Twisted's     *)
(*          ReconnectingClientFactory.  The subclass overrides             *)
(*          initialDelay and maxDelay, registers stopTrying for reactor    *)
(*          shutdown and delegates clientConnectionLost/Failed to the      *)
(*          base class.  The inherited retry machinery (retry, stopTrying, *)
(*          the connector's state) is modelled as the base class runs it,  *)
(*          because the subclass calls straight into it.                   *)
(* Part II: ReplicationDataHandler.on_rdata / on_position, a coroutine     *)
(*          that may be suspended at each await while another invocation   *)
(*          runs.                                                          *)
(* Times are in milliseconds.                                              *)
(***************************************************************************)
EXTENDS Integers, Sequences, FiniteSets, TLC

VARIABLES
    state,          \* connector.state: "disconnected" | "connecting" | "connected"
    started,        \* the application has issued its one connectTCP
    continueTrying, \* factory.continueTrying
    connector,      \* factory.connector is set
    callID,         \* factory._callID is set
    timers,         \* delayed reconnector calls pending in the reactor
    delay,          \* factory.delay (ms)
    retries,        \* factory.retries
    connectError,   \* connector.connect() was called while not disconnected
    stopCalls,      \* history: number of stopTrying calls so far
    shutdownFired,  \* the reactor has run its "before shutdown" triggers
    lastOp,         \* history: the last factory operation that ran
    tasks,          \* the invocations of on_rdata / on_position, by number
    log,            \* the calls made on the store, the notifier and the pusher pool
    lastToken,      \* the token of the latest batch handed to the handler
    storeMax        \* the store's room max stream ordering

connVars == <<state, started, continueTrying, connector, callID, timers, delay,
              retries, connectError, stopCalls, shutdownFired, lastOp>>

dispVars == <<tasks, log, lastToken, storeMax>>

vars == <<connVars, dispVars>>

\* ------------------------------------------------------------------ bounds
MaxRetries == 4
MaxStops == 2

\* ------------------------------------------------- class attributes (ms)
initialDelay == 100
maxDelay == 1000

Min(a, b) == IF a <= b THEN a ELSE b

\* The factory's fields as one record, so that the inherited methods can be
\* written as functions from the factory before to the factory after.
Factory == [continueTrying |-> continueTrying, connector |-> connector,
            callID |-> callID, timers |-> timers, delay |-> delay,
            retries |-> retries]

\* Outcomes of random.normalvariate(mu, mu * jitter) that the model draws:
\* one standard deviation below the mean, the mean, one above.  The class
\* does not override the inherited jitter (0.1196...).
JitterDraws == {-1, 0, 1}
Jitter(mu, j) == mu + j * ((mu * 1196) \div 10000)

\* ReconnectingClientFactory.retry: grow the delay by the factor e, cap it
\* at maxDelay, apply the jitter, then schedule the reconnector.
retry(f, j) ==
    IF ~f.continueTrying THEN f
    ELSE [f EXCEPT !.retries = f.retries + 1,
                   !.delay = Jitter(Min((f.delay * 2718) \div 1000, maxDelay), j),
                   !.callID = TRUE,
                   !.timers = f.timers + 1]

\* ReconnectingClientFactory.clientConnectionLost / clientConnectionFailed
baseConnectionEnded(f, j) ==
    IF f.continueTrying THEN retry([f EXCEPT !.connector = TRUE], j) ELSE f

\* Mutants of the two overrides: one that retries on top of the base class's
\* retry, one that never reaches the base class, one that schedules the
\* reconnect itself without looking at continueTrying.
clientConnectionLost_RetryTwice(f, j) == retry(baseConnectionEnded(f, j), j)
clientConnectionFailed_NoSuper(f, j) == f
clientConnectionLost_IgnoreStop(f, j) ==
    [f EXCEPT !.connector = TRUE, !.retries = f.retries + 1,
              !.callID = TRUE, !.timers = f.timers + 1]
clientConnectionFailed_IgnoreStop(f, j) ==
    [f EXCEPT !.connector = TRUE, !.retries = f.retries + 1,
              !.callID = TRUE, !.timers = f.timers + 1]

\* DirectTcpReplicationClientFactory.clientConnectionLost: log, then the
\* base class's clientConnectionLost.
clientConnectionLost(f, j) == baseConnectionEnded(f, j)

\* DirectTcpReplicationClientFactory.clientConnectionFailed: log, then the
\* base class's clientConnectionFailed.
clientConnectionFailed(f, j) == baseConnectionEnded(f, j)

\* DirectTcpReplicationClientFactory.buildProtocol: log and build the
\* protocol; no field of the factory is written.
buildProtocol(f) == f

\* The stopTrying bound method that __init__ registers as the reactor's
\* "before shutdown" trigger: cancel the pending call, clear continueTrying,
\* and stop the remembered connector if it is connecting (its
\* NotConnectingError is swallowed otherwise).  Stopping the connector makes
\* it report the failure to clientConnectionFailed.
stopTrying(f, st, j) ==
    LET f1 == IF f.callID
              THEN [f EXCEPT !.callID = FALSE, !.timers = f.timers - 1]
              ELSE f
        f2 == [f1 EXCEPT !.continueTrying = FALSE]
    IN  IF f2.connector /\ st = "connecting"
        THEN [f |-> clientConnectionFailed(f2, j), state |-> "disconnected"]
        ELSE [f |-> f2, state |-> st]

\* Mutant of ShutdownTriggers: __init__ registers nothing.
ShutdownTriggers_None == <<>>

\* __init__, line 60: the triggers the factory registers with the reactor for
\* ("before", "shutdown"), one per instance.
ShutdownTriggers == <<"stopTrying">>

\* The reactor calling the first n registered triggers, each of them stopTrying.
RECURSIVE RunTriggers(_, _, _, _)
RunTriggers(n, f, st, j) ==
    IF n = 0 THEN [f |-> f, state |-> st]
    ELSE LET r == stopTrying(f, st, j) IN RunTriggers(n - 1, r.f, r.state, j)

SetFactory(f) ==
    /\ continueTrying' = f.continueTrying
    /\ connector' = f.connector
    /\ callID' = f.callID
    /\ timers' = f.timers
    /\ delay' = f.delay
    /\ retries' = f.retries

\* The factory as constructed.  delay is the attribute the base class bound in
\* its own class body (delay = initialDelay, 1.0 s there); overriding
\* initialDelay in the subclass does not rebind it.
InitConn ==
    /\ state = "disconnected"
    /\ started = FALSE
    /\ continueTrying = TRUE
    /\ connector = FALSE
    /\ callID = FALSE
    /\ timers = 0
    /\ delay = 1000
    /\ retries = 0
    /\ connectError = FALSE
    /\ stopCalls = 0
    /\ shutdownFired = FALSE
    /\ lastOp = "init"

\* The application's connectTCP(host, port, factory): the connector's first
\* connect(), which calls startedConnecting.
startedConnecting ==
    /\ ~started
    /\ started' = TRUE
    /\ state' = "connecting"
    /\ lastOp' = "startedConnecting"
    /\ UNCHANGED <<continueTrying, connector, callID, timers, delay, retries,
                   connectError, stopCalls, shutdownFired>>
    /\ UNCHANGED dispVars

\* The transport connected: the connector becomes connected and asks the
\* factory for the protocol.
ConnectionMade ==
    /\ state = "connecting"
    /\ state' = "connected"
    /\ SetFactory(buildProtocol(Factory))
    /\ lastOp' = "buildProtocol"
    /\ UNCHANGED <<started, connectError, stopCalls, shutdownFired>>
    /\ UNCHANGED dispVars

\* The live connection ended: the connector becomes disconnected and calls
\* clientConnectionLost.
ConnectionLost ==
    /\ state = "connected"
    /\ retries < MaxRetries
    /\ state' = "disconnected"
    /\ \E j \in JitterDraws : SetFactory(clientConnectionLost(Factory, j))
    /\ lastOp' = "clientConnectionLost"
    /\ UNCHANGED <<started, connectError, stopCalls, shutdownFired>>
    /\ UNCHANGED dispVars

\* The attempt failed: the connector becomes disconnected and calls
\* clientConnectionFailed.
ConnectionFailed ==
    /\ state = "connecting"
    /\ retries < MaxRetries
    /\ state' = "disconnected"
    /\ \E j \in JitterDraws : SetFactory(clientConnectionFailed(Factory, j))
    /\ lastOp' = "clientConnectionFailed"
    /\ UNCHANGED <<started, connectError, stopCalls, shutdownFired>>
    /\ UNCHANGED dispVars

\* The delayed call fires: reconnector clears _callID and calls
\* connector.connect(), which refuses unless the connector is disconnected.
reconnector ==
    /\ timers > 0
    /\ timers' = timers - 1
    /\ callID' = FALSE
    /\ IF state = "disconnected"
       THEN state' = "connecting" /\ UNCHANGED connectError
       ELSE connectError' = TRUE /\ UNCHANGED state
    /\ lastOp' = "reconnector"
    /\ UNCHANGED <<started, continueTrying, connector, delay, retries, stopCalls,
                   shutdownFired>>
    /\ UNCHANGED dispVars

\* stopTrying is called (by the shutdown trigger or by anyone holding the
\* factory).
StopTrying ==
    /\ stopCalls < MaxStops
    /\ stopCalls' = stopCalls + 1
    /\ \E j \in JitterDraws :
         LET r == stopTrying(Factory, state, j)
         IN  SetFactory(r.f) /\ state' = r.state
    /\ lastOp' = "stopTrying"
    /\ UNCHANGED <<started, connectError, shutdownFired>>
    /\ UNCHANGED dispVars

\* The reactor shuts down: it runs, once, every "before shutdown" trigger
\* that was registered with it.
Shutdown ==
    /\ ~shutdownFired
    /\ shutdownFired' = TRUE
    /\ stopCalls' = stopCalls + Len(ShutdownTriggers)
    /\ \E j \in JitterDraws :
         LET r == RunTriggers(Len(ShutdownTriggers), Factory, state, j)
         IN  SetFactory(r.f) /\ state' = r.state
    /\ lastOp' = "shutdown"
    /\ UNCHANGED <<started, connectError>>
    /\ UNCHANGED dispVars

NextConn ==
    \/ startedConnecting
    \/ ConnectionMade
    \/ ConnectionLost
    \/ ConnectionFailed
    \/ reconnector
    \/ StopTrying
    \/ Shutdown

\* ================================================== ReplicationDataHandler

Tasks == {1, 2}
\* The session hands over at most MaxRows rows in all.
MaxRows == 2

EventsStreamNAME == "events"
EventRowTypeId == "ev"
EventTypesMember == "m.room.member"

Streams == {EventsStreamNAME, "typing"}
Instances == {"master"}
EventIds == {"$a", "$b"}

\* Rows as Stream.parse_row returns them: a type id and the row's data.
Rows == [type : {EventRowTypeId}, event_id : EventIds]
            \cup [type : {"state"}, event_id : {"$a"}]
RowSeqs(n) == UNION {[1..m -> Rows] : m \in 0..n}

\* What store.get_event(event_id, allow_rejected=True) can return.
Events ==
    [type : {"m.room.message", EventTypesMember},
     rejected_reason : {"None"}, state_key : {"@bob:example.org"}]
    \cup [type : {"m.room.message"},
          rejected_reason : {"auth_error"}, state_key : {"@bob:example.org"}]

\* Mutant of Truthy: the test is turned round.
Truthy_Negated(x) == x \in {"None", ""}

\* Python truth value of event.rejected_reason (None or a string).
Truthy(x) == x \notin {"None", ""}

\* An invocation: the coroutine's arguments and position, the error that left
\* it (error), and as history what get_event gave for each row fetched
\* (fetched) and the error a collaborator raised in it (raised).
NoTask == [pc |-> "idle", kind |-> "none", stream |-> "", instance |-> "",
           token |-> 0, rows |-> <<>>, i |-> 0, error |-> "",
           fetched |-> <<>>, raised |-> ""]

\* What get_event gave for row `row`: an event, or nothing (it raised).
NoEvent == [type |-> "", rejected_reason |-> "None", state_key |-> ""]
Fetched(row, found, event) == [row |-> row, found |-> found, event |-> event]

Call(t, op, row, args) == [t |-> t, op |-> op, row |-> row, args |-> args]

Max(a, b) == IF a >= b THEN a ELSE b

\* Mutant of StoreArgs: the rows are not handed on.
StoreArgs_NoRows(stream_name, instance_name, token, rows) ==
    <<stream_name, instance_name, token, <<>>>>

\* on_rdata, line 110: the arguments of store.process_replication_rows.
StoreArgs(stream_name, instance_name, token, rows) ==
    <<stream_name, instance_name, token, rows>>

\* on_rdata, line 112
IsEventsStream(stream_name) == stream_name = EventsStreamNAME

\* Mutant of NextEventRow: the row type is not looked at.
NextEventRow_AnyRow(rows, from) == IF from < Len(rows) THEN from + 1 ELSE 0

\* on_rdata, lines 115-117: the index of the next row after `from` whose type
\* is the event row type, 0 when the for loop runs off the end.
NextEventRow(rows, from) ==
    LET S == {k \in (from + 1)..Len(rows) : rows[k].type = EventRowTypeId}
    IN  IF S = {} THEN 0 ELSE CHOOSE k \in S : \A m \in S : k <= m

\* Mutant of extra_users: the state key is passed for every event.
extra_users_Always(event) == <<event.state_key>>

\* on_rdata, lines 126-128
extra_users(event) ==
    IF event.type = EventTypesMember THEN <<event.state_key>> ELSE <<>>

\* Mutant of PushArgs: a range push from the token before.
PushArgs_Range(token) == <<token - 1, token>>

\* on_rdata, line 132: the arguments of pusher_pool.on_new_notifications.
PushArgs(token) == <<token, token>>

\* on_rdata, lines 112-132, from the top of the for loop with the rows up to
\* `from` handled, up to the next await: either the get_event of the next
\* event row or, past the last row, on_new_notifications.  Any other stream
\* returns at once.
Continue(tk, lg, t, from) ==
    IF ~IsEventsStream(tk.stream)
    THEN [task |-> [tk EXCEPT !.pc = "done"], log |-> lg]
    ELSE LET k == NextEventRow(tk.rows, from)
         IN  IF k # 0
             THEN [task |-> [tk EXCEPT !.pc = "await_get_event", !.i = k],
                   log |-> Append(lg, Call(t, "get_event", k,
                                           <<tk.rows[k].event_id, TRUE>>))]
             ELSE [task |-> [tk EXCEPT !.pc = "await_push", !.i = Len(tk.rows)],
                   log |-> Append(lg, Call(t, "on_new_notifications", 0,
                                           PushArgs(tk.token)))]

\* Mutant of Raise: the exception is caught and the coroutine returns.
Raise_Swallowed(tk, lg, err) == [task |-> [tk EXCEPT !.pc = "done"], log |-> lg]

\* on_rdata / on_position have no try/except: an exception raised by a call
\* or an await leaves the coroutine there.
Raise(tk, lg, err) ==
    [task |-> [tk EXCEPT !.pc = "failed", !.error = err], log |-> lg]

\* Mutant of MaxTokenFor: the batch token is passed as max_token.
MaxTokenFor_BatchToken(tk) == tk.token

\* on_rdata, line 129: max_token = self.store.get_room_max_stream_ordering()
MaxTokenFor(tk) == storeMax

\* on_rdata, lines 110-132, from the call up to the first await (or the
\* return): the store call, which may raise, then the derivation.
on_rdata_body(tk, lg, t, ok) ==
    LET lg1 == Append(lg, Call(t, "process_replication_rows", 0,
                               StoreArgs(tk.stream, tk.instance, tk.token, tk.rows)))
    IN  IF ok THEN Continue(tk, lg1, t, 0) ELSE Raise(tk, lg1, "StoreError")

\* Mutants of on_position: the position update runs the whole of on_rdata;
\* the position update returns without telling the store.
on_position_AsRdata(tk, lg, t, ok) == on_rdata_body(tk, lg, t, ok)
on_position_NoCall(tk, lg, t, ok) == [task |-> [tk EXCEPT !.pc = "done"], log |-> lg]

\* on_position, line 135: the store call with no rows, and nothing else.
on_position_body(tk, lg, t, ok) ==
    LET lg1 == Append(lg, Call(t, "process_replication_rows", 0,
                               StoreArgs(tk.stream, tk.instance, tk.token, <<>>)))
    IN  IF ok THEN [task |-> [tk EXCEPT !.pc = "done"], log |-> lg1]
        ELSE Raise(tk, lg1, "StoreError")

\* The slaved store's process_replication_rows advances the events stream
\* position, which get_room_max_stream_ordering reports.
StoreAdvance(stream_name, token, ok) ==
    IF ok /\ stream_name = EventsStreamNAME THEN Max(storeMax, token) ELSE storeMax

InitDisp ==
    /\ tasks = [t \in Tasks |-> NoTask]
    /\ log = <<>>
    /\ lastToken = 0
    /\ storeMax = 0

\* Rows the session can still hand over.
RowsLeft ==
    LET RECURSIVE Used(_)
        Used(S) == IF S = {} THEN 0
                   ELSE LET u == CHOOSE u \in S : TRUE
                        IN  Len(tasks[u].rows) + Used(S \ {u})
    IN  MaxRows - Used(Tasks)

\* Mutant of CanInvoke: a call waits until the calls before it have returned.
CanInvoke_Serialized(t) ==
    /\ tasks[t].pc = "idle"
    /\ \A u \in Tasks : u < t => tasks[u].pc \in {"done", "failed"}

\* Tasks are numbered in the order of their calls; tokens grow with each call.
\* Nothing in on_rdata / on_position makes a call wait for another.
CanInvoke(t) ==
    /\ tasks[t].pc = "idle"
    /\ \A u \in Tasks : u < t => tasks[u].pc # "idle"

\* The protocol session calls on_rdata(stream_name, instance_name, token,
\* rows); the coroutine runs to its first await.
on_rdata(t) ==
    /\ CanInvoke(t)
    /\ \E stream_name \in Streams, instance_name \in Instances,
          rows \in RowSeqs(RowsLeft), ok \in BOOLEAN :
         LET token == lastToken + 1
             tk == [NoTask EXCEPT !.kind = "rdata", !.stream = stream_name,
                                  !.instance = instance_name, !.token = token,
                                  !.rows = rows]
             r == on_rdata_body(tk, log, t, ok)
         IN  /\ tasks' = [tasks EXCEPT ![t] =
                             [r.task EXCEPT !.raised = IF ok THEN "" ELSE "StoreError"]]
             /\ log' = r.log
             /\ lastToken' = token
             /\ storeMax' = StoreAdvance(stream_name, token, ok)
    /\ UNCHANGED connVars

\* await store.get_event(...) resumes with an event: lines 123-130, then the
\* loop goes on to the next await.  The notifier call may raise.
get_event_returns(t) ==
    /\ tasks[t].pc = "await_get_event"
    /\ \E event \in Events, ok \in BOOLEAN :
         LET tk == [tasks[t] EXCEPT
                       !.fetched = Append(@, Fetched(tasks[t].i, TRUE, event))]
             max_token == MaxTokenFor(tk)
             notified == Append(log, Call(t, "on_new_room_event", tk.i,
                                  <<event, tk.token, max_token, extra_users(event)>>))
             r == IF Truthy(event.rejected_reason)
                  THEN Continue(tk, log, t, tk.i)
                  ELSE IF ok
                       THEN Continue(tk, notified, t, tk.i)
                       ELSE Raise(tk, notified, "NotifierError")
             raised == IF Truthy(event.rejected_reason) \/ ok THEN "" ELSE "NotifierError"
         IN  /\ (Truthy(event.rejected_reason) => ok)
             /\ tasks' = [tasks EXCEPT ![t] = [r.task EXCEPT !.raised = raised]]
             /\ log' = r.log
    /\ UNCHANGED <<lastToken, storeMax>>
    /\ UNCHANGED connVars

\* await store.get_event(...) raises (the event is not in the store, or the
\* store failed): the exception leaves on_rdata.
get_event_raises(t) ==
    /\ tasks[t].pc = "await_get_event"
    /\ LET tk == [tasks[t] EXCEPT
                     !.fetched = Append(@, Fetched(tasks[t].i, FALSE, NoEvent))]
           r == Raise(tk, log, "NotFoundError")
       IN  /\ tasks' = [tasks EXCEPT ![t] = [r.task EXCEPT !.raised = "NotFoundError"]]
           /\ log' = r.log
    /\ UNCHANGED <<lastToken, storeMax>>
    /\ UNCHANGED connVars

\* await pusher_pool.on_new_notifications(token, token) returns or raises.
on_new_notifications_returns(t) ==
    /\ tasks[t].pc = "await_push"
    /\ \E ok \in BOOLEAN :
         LET r == IF ok THEN [task |-> [tasks[t] EXCEPT !.pc = "done"], log |-> log]
                  ELSE Raise(tasks[t], log, "PushError")
         IN  /\ tasks' = [tasks EXCEPT ![t] =
                             [r.task EXCEPT !.raised = IF ok THEN "" ELSE "PushError"]]
             /\ log' = r.log
    /\ UNCHANGED <<lastToken, storeMax>>
    /\ UNCHANGED connVars

\* The protocol session calls on_position(stream_name, instance_name, token).
on_position(t) ==
    /\ CanInvoke(t)
    /\ \E stream_name \in Streams, instance_name \in Instances, ok \in BOOLEAN :
         LET token == lastToken + 1
             tk == [NoTask EXCEPT !.kind = "position", !.stream = stream_name,
                                  !.instance = instance_name, !.token = token]
             r == on_position_body(tk, log, t, ok)
         IN  /\ tasks' = [tasks EXCEPT ![t] =
                             [r.task EXCEPT !.raised = IF ok THEN "" ELSE "StoreError"]]
             /\ log' = r.log
             /\ lastToken' = token
             /\ storeMax' = StoreAdvance(stream_name, token, ok)
    /\ UNCHANGED connVars

NextDisp ==
    \/ \E t \in Tasks : on_rdata(t)
    \/ \E t \in Tasks : get_event_returns(t)
    \/ \E t \in Tasks : get_event_raises(t)
    \/ \E t \in Tasks : on_new_notifications_returns(t)
    \/ \E t \in Tasks : on_position(t)

\* ========================================================== specifications

Init == InitConn /\ InitDisp

SpecConn == Init /\ [][NextConn]_vars

\* The reactor runs every delayed call that is not cancelled.
FairSpecConn == SpecConn /\ WF_vars(reconnector)

SpecDisp == Init /\ [][NextDisp]_vars

\* =================================================== Connection Manager claims

NewAttempt == state # "connecting" /\ state' = "connecting"
RetryScheduled == timers' > timers

\* C1: at most one active connection attempt or live connection: never two
\* pending reconnects, never a pending reconnect while the connector is
\* connecting or connected, never a connect() on a connector that is not
\* disconnected.
C1_AtMostOneConnection ==
    /\ timers <= 1
    /\ (timers > 0 => state = "disconnected")
    /\ ~connectError

\* C1 witness: a live connection that a retry established.
C1_Witness == state = "connected" /\ retries > 0 /\ lastOp = "buildProtocol"

\* C2: while stopTrying has not been called, a connection that was lost or
\* failed is eventually followed by a new connection attempt.
C2_RetryUntilStopped ==
    (started /\ state = "disconnected" /\ stopCalls = 0)
        ~> (state = "connecting" \/ stopCalls > 0)

\* C2 witness: a new attempt after several failures in a row.
C2_Witness == state = "connecting" /\ lastOp = "reconnector" /\ retries >= 3

\* C3: once stopTrying has been called no retry stays scheduled, no callback
\* schedules one and the factory starts no new connection attempt (the only
\* attempt that can still begin is the application's own first connectTCP,
\* which is not a retry).
C3_NoAttemptAfterStop ==
    [][stopCalls' > 0 => (timers' = 0 /\ (NewAttempt => ~started))]_vars

\* C3 witness: a connection ended after stopTrying and nothing was scheduled.
C3_Witness ==
    /\ stopCalls > 0
    /\ lastOp \in {"clientConnectionLost", "clientConnectionFailed"}
    /\ timers = 0

\* C4: over consecutive connection failures the delay of each retry is not
\* below the delay of the retry before it, and is at most maxDelay.
C4_BackoffMonotoneBounded ==
    [][(RetryScheduled /\ lastOp' = "clientConnectionFailed")
          => /\ delay' <= maxDelay
             /\ (retries >= 1 => delay' >= delay)]_vars

\* C5: a successful connection leaves the delay as it was, and over the
\* factory's lifetime the delay of each retry is not below the delay of the
\* retry before it.
C5_DelayNeverShrinks ==
    [][/\ (lastOp' = "buildProtocol" => delay' = delay)
       /\ ((RetryScheduled /\ retries >= 1) => delay' >= delay)]_vars

\* C6: a second or later stopTrying changes nothing: no attempt, no error,
\* the factory and the connector stay as the first call left them.
C6_StopIdempotent ==
    [][(stopCalls > 0 /\ stopCalls' > stopCalls)
          => UNCHANGED <<state, started, continueTrying, connector, callID,
                         timers, delay, retries, connectError>>]_vars

\* C6 witness: stopTrying has run twice, the second time after a retry cycle.
C6_Witness == stopCalls >= 2 /\ lastOp = "stopTrying" /\ retries > 0

\* C15: the factory has one shutdown trigger, registered at construction;
\* when the reactor shuts down stopTrying runs once, and from then on no
\* retry is pending or scheduled and the factory starts no connection
\* attempt, whatever it was doing (the application's own first connectTCP
\* apart, which is not the factory's).
C15_ShutdownStopsRetrying ==
    /\ [][(~shutdownFired /\ shutdownFired') => stopCalls' = stopCalls + 1]_vars
    /\ [][shutdownFired' => (timers' = 0 /\ ~continueTrying'
                              /\ (NewAttempt => ~started))]_vars

\* C15 witness: the reactor shut down after the factory had retried, and a
\* connection ended after the shutdown.
C15_Witness ==
    /\ shutdownFired /\ stopCalls = 1 /\ retries > 0
    /\ lastOp \in {"clientConnectionLost", "clientConnectionFailed"}

\* C16: the retry after the first failure waits initialDelay.
C16_FirstRetryInitialDelay ==
    [][(RetryScheduled /\ retries = 0) => delay' = initialDelay]_vars

\* ================================================ Stream Data Dispatcher claims

\* The positions in the log of the calls made by task t, and those of one op.
CallsOf(t) == {k \in 1..Len(log) : log[k].t = t}
CallsOfOp(t, op) == {k \in CallsOf(t) : log[k].op = op}
Invoked(t) == tasks[t].pc # "idle"
Returned(t) == tasks[t].pc \in {"done", "failed"}

\* C7: every on_rdata call makes exactly one process_replication_rows call,
\* with the stream name, instance name, token and rows it was given, and that
\* call comes before every get_event, on_new_room_event and
\* on_new_notifications call of the same batch.
C7_StoreCalledOnceFirst ==
    \A t \in Tasks :
        (Invoked(t) /\ tasks[t].kind = "rdata") =>
            \E k \in CallsOf(t) :
                /\ log[k].op = "process_replication_rows"
                /\ log[k].args = <<tasks[t].stream, tasks[t].instance,
                                   tasks[t].token, tasks[t].rows>>
                /\ \A m \in CallsOf(t) \ {k} :
                       m > k /\ log[m].op # "process_replication_rows"

\* C7 witness: an events batch of event rows and other rows that has run to
\* its end, with a notifier call made for it.
C7_Witness ==
    \E t \in Tasks :
        /\ tasks[t].kind = "rdata" /\ tasks[t].pc = "done"
        /\ tasks[t].stream = EventsStreamNAME
        /\ \E a, b \in 1..Len(tasks[t].rows) :
               tasks[t].rows[a].type = EventRowTypeId /\ tasks[t].rows[b].type = "state"
        /\ CallsOfOp(t, "on_new_room_event") # {}

\* C8: of two batches of one stream, every call made for the earlier one
\* comes before every call made for the later one.
C8_PerStreamOrder ==
    \A t1, t2 \in Tasks :
        (t1 < t2 /\ Invoked(t2) /\ tasks[t1].stream = tasks[t2].stream
                 /\ tasks[t1].token < tasks[t2].token) =>
            \A a \in CallsOf(t1), b \in CallsOf(t2) : a < b

C10_PositionOnlyStore ==
    \A t \in Tasks :
        (Invoked(t) /\ tasks[t].kind = "position") =>
            /\ Cardinality(CallsOf(t)) = 1
            /\ \A k \in CallsOf(t) :
                   /\ log[k].op = "process_replication_rows"
                   /\ log[k].args = <<tasks[t].stream, tasks[t].instance,
                                      tasks[t].token, <<>>>>

\* C10 witness: a position update of the events stream that has returned.
C10_Witness ==
    \E t \in Tasks :
        /\ tasks[t].kind = "position" /\ tasks[t].pc = "done"
        /\ tasks[t].stream = EventsStreamNAME

\* The calls task t has made, in order.
CallSeq(t) == LET Mine(e) == e.t = t IN SelectSeq(log, Mine)

\* The calls on_rdata makes when called as task t was, with no rows (its
\* first step makes them all: the store call and, on the events stream, the
\* push call).
RdataNoRowsCalls(t) ==
    on_rdata_body([NoTask EXCEPT !.kind = "rdata", !.stream = tasks[t].stream,
                                 !.instance = tasks[t].instance,
                                 !.token = tasks[t].token],
                  <<>>, t, tasks[t].raised = "").log

\* C11 as claimed: on_position makes the calls on_rdata makes with no rows,
\* on every stream.
C11_PositionIsRdataNoRows ==
    \A t \in Tasks :
        (Invoked(t) /\ tasks[t].kind = "position") =>
            CallSeq(t) = RdataNoRowsCalls(t)

\* C11 amended: on_position makes the store call on_rdata makes with no rows;
\* on a stream other than the events stream (or when the store call raises)
\* that is all either makes, and on the events stream on_rdata goes on to one
\* on_new_notifications(token, token) call that on_position does not make.
C11_PositionIsRdataNoRowsButPush ==
    \A t \in Tasks :
        (Invoked(t) /\ tasks[t].kind = "position") =>
            RdataNoRowsCalls(t) =
                IF tasks[t].stream = EventsStreamNAME /\ tasks[t].raised = ""
                THEN Append(CallSeq(t),
                            [t |-> t, op |-> "on_new_notifications", row |-> 0,
                             args |-> <<tasks[t].token, tasks[t].token>>])
                ELSE CallSeq(t)

\* C11 witness: position updates of the events stream and of another stream
\* have both returned.
C11_Witness ==
    \E t, u \in Tasks :
        /\ tasks[t].kind = "position" /\ tasks[t].pc = "done"
        /\ tasks[u].kind = "position" /\ tasks[u].pc = "done"
        /\ tasks[t].stream = EventsStreamNAME /\ tasks[u].stream # EventsStreamNAME

\* The rows of task t for which get_event gave a rejected event, no event, or
\* an event that is not rejected.
RejectedRows(t) ==
    {tasks[t].fetched[k].row : k \in {k \in DOMAIN tasks[t].fetched :
        /\ tasks[t].fetched[k].found
        /\ tasks[t].fetched[k].event.rejected_reason \notin {"None", ""}}}
MissingRows(t) ==
    {tasks[t].fetched[k].row : k \in {k \in DOMAIN tasks[t].fetched :
        ~tasks[t].fetched[k].found}}
DeliverableRows(t) ==
    {tasks[t].fetched[k].row : k \in {k \in DOMAIN tasks[t].fetched :
        /\ tasks[t].fetched[k].found
        /\ tasks[t].fetched[k].event.rejected_reason \in {"None", ""}}}

\* The event rows of task t after row r.
LaterEventRows(t, r) ==
    {k \in (r + 1)..Len(tasks[t].rows) : tasks[t].rows[k].type = EventRowTypeId}

\* After row r of task t the loop went on: the next event row was fetched or,
\* with none left, the push call was made.
WentOnAfter(t, r) ==
    IF LaterEventRows(t, r) = {}
    THEN CallsOfOp(t, "on_new_notifications") # {}
    ELSE \E k \in CallsOfOp(t, "get_event") :
             /\ log[k].row \in LaterEventRows(t, r)
             /\ \A m \in LaterEventRows(t, r) : log[k].row <= m

\* C12: for an event row whose fetched event has a rejection reason there is
\* no notifier call, the store call of the batch was made, and the rest of
\* the batch is processed.
C12_RejectedSkipped ==
    \A t \in Tasks : \A r \in RejectedRows(t) :
        /\ \A k \in CallsOfOp(t, "on_new_room_event") : log[k].row # r
        /\ CallsOfOp(t, "process_replication_rows") # {}
        /\ WentOnAfter(t, r)

\* C12 witness: a batch whose first event row was rejected and whose later
\* event row was delivered.
C12_Witness ==
    \E t \in Tasks : \E r \in RejectedRows(t) :
        \E k \in CallsOfOp(t, "on_new_room_event") : log[k].row > r

\* C13: an event row whose event get_event does not find raises no error from
\* on_rdata, gets no notifier call, and the batch goes on to its remaining
\* rows and its push call.
C13_MissingSkipped ==
    \A t \in Tasks : \A r \in MissingRows(t) :
        /\ tasks[t].pc # "failed"
        /\ \A k \in CallsOfOp(t, "on_new_room_event") : log[k].row # r
        /\ WentOnAfter(t, r)

\* C14: the notifier is called for every event row whose event is not
\* rejected, with extra_users holding exactly the event's state key when the
\* event is a membership event and nothing otherwise.
C14_ExtraUsers ==
    \A t \in Tasks :
        /\ \A r \in DeliverableRows(t) :
               \E k \in CallsOfOp(t, "on_new_room_event") : log[k].row = r
        /\ \A k \in CallsOfOp(t, "on_new_room_event") :
               LET event == log[k].args[1]
               IN  log[k].args[4] = IF event.type = "m.room.member"
                                    THEN <<event.state_key>> ELSE <<>>

\* C14 witness: one batch with a membership event and another event delivered.
C14_Witness ==
    \E t \in Tasks : \E a, b \in CallsOfOp(t, "on_new_room_event") :
        /\ log[a].args[1].type = "m.room.member"
        /\ log[a].args[4] = <<"@bob:example.org">>
        /\ log[b].args[1].type # "m.room.member"
        /\ log[b].args[4] = <<>>

\* The last call task t made is `op` for row `row`.
LastCallIs(t, op, row) ==
    \E k \in CallsOf(t) :
        /\ \A m \in CallsOf(t) : m <= k
        /\ log[k].op = op /\ log[k].row = row

\* C17: when the store, the fetch, the notifier or the pusher pool raises in
\* on_rdata, that error leaves on_rdata and the call that raised is the last
\* one of the batch: nothing after a failed store call, no further row and no
\* push call after a failed fetch or notifier call.
C17_ErrorsPropagate ==
    \A t \in Tasks :
        (tasks[t].kind = "rdata" /\ tasks[t].raised # "") =>
            /\ tasks[t].pc = "failed"
            /\ tasks[t].error = tasks[t].raised
            /\ CASE tasks[t].raised = "StoreError" ->
                      /\ Cardinality(CallsOf(t)) = 1
                      /\ LastCallIs(t, "process_replication_rows", 0)
                 [] tasks[t].raised = "NotFoundError" ->
                      /\ LastCallIs(t, "get_event", tasks[t].i)
                      /\ CallsOfOp(t, "on_new_notifications") = {}
                 [] tasks[t].raised = "NotifierError" ->
                      /\ LastCallIs(t, "on_new_room_event", tasks[t].i)
                      /\ CallsOfOp(t, "on_new_notifications") = {}
                 [] OTHER -> LastCallIs(t, "on_new_notifications", 0)

\* C17 witness: the notifier raised on an event row that has event rows
\* after it.
C17_Witness ==
    \E t \in Tasks :
        /\ tasks[t].raised = "NotifierError" /\ tasks[t].pc = "failed"
        /\ LaterEventRows(t, tasks[t].i) # {}

\* C18: get_event and on_new_room_event are called only for rows of the event
\* row type in batches of the events stream; a batch of another stream makes
\* the store call and nothing else; the store is handed every row.
C18_DerivationOnlyEventRows ==
    /\ \A k \in 1..Len(log) :
           log[k].op \in {"get_event", "on_new_room_event"} =>
               /\ tasks[log[k].t].stream = "events"
               /\ tasks[log[k].t].rows[log[k].row].type = "ev"
    /\ \A t \in Tasks :
           (Invoked(t) /\ tasks[t].kind = "rdata") =>
               /\ \A k \in CallsOfOp(t, "process_replication_rows") :
                      log[k].args[4] = tasks[t].rows
               /\ (tasks[t].stream # "events" =>
                      CallsOf(t) = CallsOfOp(t, "process_replication_rows"))

\* C18 witness: a batch of another stream that holds an event row, and an
\* events batch that holds a row of another kind, have both returned.
C18_Witness ==
    \E t, u \in Tasks :
        /\ tasks[t].pc = "done" /\ tasks[t].stream # EventsStreamNAME
        /\ \E a \in 1..Len(tasks[t].rows) : tasks[t].rows[a].type = EventRowTypeId
        /\ tasks[u].pc = "done" /\ tasks[u].stream = EventsStreamNAME
        /\ \E b \in 1..Len(tasks[u].rows) : tasks[u].rows[b].type # EventRowTypeId

\* The calls the last step appended to the log.
NewCalls == {k \in 1..Len(log') : k > Len(log)}

\* C19: in one events batch the event rows are fetched one at a time in row
\* order, the notifier call of a row comes before the fetch of the next, each
\* notifier call gets the batch token and the store's max stream ordering as
\* it is when the call is made, and the push call comes after every row.
C19_BatchSequential ==
    /\ [](\A t \in Tasks :
            /\ \A a, b \in CallsOf(t) :
                   (a < b /\ log[a].row > 0 /\ log[b].row > 0) =>
                       \/ log[a].row < log[b].row
                       \/ /\ log[a].row = log[b].row
                          /\ log[a].op = "get_event"
                          /\ log[b].op = "on_new_room_event"
            /\ Cardinality(CallsOfOp(t, "get_event")) =
                   Len(tasks[t].fetched)
                       + (IF tasks[t].pc = "await_get_event" THEN 1 ELSE 0)
            /\ \A p \in CallsOfOp(t, "on_new_notifications") :
                   /\ \A m \in CallsOf(t) : m <= p
                   /\ \A r \in LaterEventRows(t, 0) :
                          \E k \in CallsOfOp(t, "get_event") : log[k].row = r
            /\ \A k \in CallsOfOp(t, "on_new_room_event") :
                   log[k].args[2] = tasks[t].token)
    /\ [][\A k \in NewCalls :
              log'[k].op = "on_new_room_event" => log'[k].args[3] = storeMax]_vars

\* C19 witness: a batch with two rows delivered, one of them with a max
\* stream ordering that another batch had moved past the batch's token.
C19_Witness ==
    \E t \in Tasks :
        /\ tasks[t].pc = "done"
        /\ \E a, b \in CallsOfOp(t, "on_new_room_event") :
               /\ log[a].row < log[b].row
               /\ log[b].args[3] > log[b].args[2]

\* C20: while an events batch is suspended at an await, the next on_rdata or
\* on_position call for another stream is accepted and runs its store call
\* to the end without the suspended batch moving.
C20_OtherStreamNotBlocked ==
    \A t1, t2 \in Tasks :
        (/\ tasks[t1].pc \in {"await_get_event", "await_push"}
         /\ tasks[t1].stream = "events"
         /\ tasks[t2].pc = "idle"
         /\ \A u \in Tasks : u < t2 => tasks[u].pc # "idle") =>
            /\ ENABLED (/\ on_rdata(t2)
                        /\ tasks'[t2].stream # "events"
                        /\ tasks'[t2].pc = "done"
                        /\ tasks'[t1] = tasks[t1])
            /\ ENABLED (/\ on_position(t2)
                        /\ tasks'[t2].stream # "events"
                        /\ tasks'[t2].pc = "done"
                        /\ tasks'[t1] = tasks[t1])

\* C20 witness: a batch of another stream has made its store call and
\* returned while the events batch called before it is still suspended.
C20_Witness ==
    \E t1, t2 \in Tasks :
        /\ t1 < t2
        /\ tasks[t1].pc = "await_get_event" /\ tasks[t1].stream = EventsStreamNAME
        /\ tasks[t2].pc = "done" /\ tasks[t2].stream # EventsStreamNAME
        /\ CallsOfOp(t2, "process_replication_rows") # {}

====
